---- MODULE Spec2Model ----
(***************************************************************************)
(* Thumbnail pipeline of TacitImage (Src/TacitImage.cpp): the owning       *)
(* (main) thread calls RequestThumbnail / BindThumbnail /                  *)
(* UnrequestThumbnail / ~TacitImage on a fixed set of aggregates, and each *)
(* admitted request runs one worker thread through GenerateThumbnail and   *)
(* then clears the completion flag.  The disk cache is shared by all       *)
(* workers.                                                                *)
(***************************************************************************)
EXTENDS Integers, FiniteSets, Sequences, TLC

(***************************************************************************)
(* Bounds.                                                                 *)
(***************************************************************************)
NumImages == 3
MaxCores == 5

Images == 1..NumImages
NoImage == 0

(***************************************************************************)
(* Source files an aggregate can be constructed for.  The extension gives  *)
(* the file type (tGetFileType), and a file is either readable and         *)
(* decodable or not (missing, corrupt).                                    *)
(***************************************************************************)
Files == {"ok.png", "bad.png", "ok.dds", "bad.dds", "noext"}

tGetFileType(f) ==
    CASE f \in {"ok.png", "bad.png"} -> "Raster"
      [] f \in {"ok.dds", "bad.dds"} -> "DDS"
      [] OTHER -> "Unknown"

FileRank(f) ==
    CASE f = "ok.png" -> 1 [] f = "bad.png" -> 2 [] f = "ok.dds" -> 3
      [] f = "bad.dds" -> 4 [] OTHER -> 5

Loadable(f) == f \in {"ok.png", "ok.dds"}

Invalid == "invalid"
NoFile == "nofile"

VARIABLES
    cores,                      \* tSystem::tGetNumCores()
    alive,                      \* the aggregate exists (constructed, not yet destroyed)
    Filename,                   \* TacitImage::Filename
    ThumbnailRequested,
    ThumbnailThreadRunning,
    ThumbnailThreadFlag,        \* std::atomic_flag: TRUE = set
    ThumbnailThread,            \* TRUE = the std::thread handle is joinable
    ThumbnailPicture,           \* Invalid, or the thumbnail of a file
    TexIDThumbnail,             \* 0 or a texture id
    ThumbnailNumThreadsRunning, \* static counter
    wpc,                        \* position of the aggregate's worker thread
    cache,                      \* thumbnail cache directory: key -> NoFile, Invalid or thumbnail
    main,                       \* position of the owning thread
    crashed,                    \* NoCrash, or how the process terminated and in whose code
    joins, decs, clears,        \* history: joins / decrements / running-flag clears of the current request
    cacheWrites,                \* history: number of writes of each cache file
    workerHashFile,             \* the cache file name a running worker has computed (its local hashFile)
    offscreenContext,           \* the hidden window a worker created exists (created, not destroyed)
    srcPic,                     \* the primary picture of a worker's private aggregate while it is resized
    agg,                        \* the loaded representation of each aggregate (a record of its members)
    result                      \* the last call of Load or Unload and what it returned

vars == <<cores, alive, Filename, ThumbnailRequested, ThumbnailThreadRunning,
          ThumbnailThreadFlag, ThumbnailThread, ThumbnailPicture, TexIDThumbnail,
          ThumbnailNumThreadsRunning, wpc, cache, main, crashed,
          joins, decs, clears, cacheWrites, workerHashFile, offscreenContext,
          srcPic, agg, result>>

thumbVars == <<ThumbnailRequested, ThumbnailThreadRunning, ThumbnailThreadFlag,
               ThumbnailThread, ThumbnailPicture, TexIDThumbnail,
               ThumbnailNumThreadsRunning, wpc>>

histVars == <<joins, decs, clears, cacheWrites>>

loadVars == <<agg, result>>

NoSrcPic == [stage |-> "none"]

Idle == [pc |-> "idle", img |-> NoImage]
At(pc, i) == [pc |-> pc, img |-> i]

NoCrash == [how |-> "no", img |-> NoImage]
Crash(how, i) == [how |-> how, img |-> i]

ActivePcs == {"check", "ctx", "load", "write", "clear"}
WorkerActive(i) == wpc[i] \in ActivePcs

tClampMin(v, lo) == IF v < lo THEN lo ELSE v

numThreadsMax == tClampMin(cores - 2, 2)

(***************************************************************************)
(* The cache key: a digest of the file identity and of constants.  Two     *)
(* aggregates of the same unmodified file compute the same key.            *)
(***************************************************************************)
thumbVersion == 1
ThumbWidth == 128
ThumbHeight == 128

\* tGetFileInfo: size, creation time and modification time of a file.  The
\* modelled files are not modified, and they differ in nothing but their path.
tGetFileInfo(f) == [FileSize |-> 0, CreationTime |-> 0, ModificationTime |-> 0]

\* tHashData256 / tHashString256 with an initial value: a digest that is
\* different for different sequences of hashed items.
tHashData256(data, iv) == Append(iv, data)

\* The key without the path: what a digest of the file data alone would be.
hashFileNoPath(f) ==
    LET fileInfo == tGetFileInfo(f)
        h1 == tHashData256(thumbVersion, << >>)
        h3 == tHashData256(fileInfo.FileSize, h1)
        h4 == tHashData256(fileInfo.CreationTime, h3)
        h5 == tHashData256(fileInfo.ModificationTime, h4)
        h6 == tHashData256(ThumbWidth, h5)
    IN  tHashData256(ThumbHeight, h6)

\* The name of the cache file of the aggregate file f.
hashFile(f) ==
    LET fileInfo == tGetFileInfo(f)
        h1 == tHashData256(thumbVersion, << >>)
        h2 == tHashData256(f, h1)
        h3 == tHashData256(fileInfo.FileSize, h2)
        h4 == tHashData256(fileInfo.CreationTime, h3)
        h5 == tHashData256(fileInfo.ModificationTime, h4)
        h6 == tHashData256(ThumbWidth, h5)
    IN  tHashData256(ThumbHeight, h6)

Keys == {hashFile(f) : f \in Files}

\* The local hashFile of a worker that has not computed it, or has returned.
NoHashFile == << >>

CacheKey(i) == hashFile(Filename[i])

(***************************************************************************)
(* The loaded representation of an aggregate: the mip chain (Pictures),    *)
(* the alt picture and its visibility, the two DDS containers, the two GPU *)
(* handles, the info record and the time of the last load.  Pictures are   *)
(* records of a width, a height and the colour of every pixel; a colour is *)
(* <<layer, x, y>>, the pixel (x, y) of the decoded layer it comes from.   *)
(***************************************************************************)
MaxDim == 2          \* widths and heights of decoded layers
MaxLayers == 2       \* mipmap levels of a DDS texture
MaxTime == 1         \* values of tGetTime()

sizeofPixel == 4
\* A pixel is <<layer, x, y, alpha>>: where it was decoded from and its alpha.
opaqueAlpha == 255
black == <<"black", 0, 0, opaqueAlpha>>
transparent == <<"transparent", 0, 0, 0>>
Alpha(pixel) == pixel[4]

Coords(w, h) == (0..(w - 1)) \X (0..(h - 1))

\* A tPicture without pixels: newly constructed, cleared, or failed to load.
NoPicture == [Width |-> 0, Height |-> 0, Pixels |-> << >>]
IsValid(pic) == pic.Width > 0 /\ pic.Height > 0
GetNumPixels(pic) == pic.Width * pic.Height

\* The picture decoded from layer `layer` of a source, w by h.  A source that
\* is not opaque has a pixel that is not.
DecodedPicture(layer, w, h, opaque) ==
    [Width |-> w, Height |-> h,
     Pixels |-> [c \in Coords(w, h) |->
                   <<layer, c[1], c[2],
                     IF opaque \/ c # <<0, 0>> THEN opaqueAlpha ELSE 0>>]]

\* tPicture::IsOpaque: every pixel has full alpha.
IsOpaquePicture(pic) ==
    \A c \in Coords(pic.Width, pic.Height) : Alpha(pic.Pixels[c]) = opaqueAlpha

\* A tTexture / tCubemap without layers.
NoTexture == [Width |-> 0, Height |-> 0, NumLayers |-> 0, Opaque |-> TRUE]

\* What the decoder makes of the file f: the result of tPicture::Load,
\* tCubemap::Load and tTexture::Load, which return false or throw on a file
\* that cannot be decoded.  gl: glGenTextures gave a texture name.
Dims == 1..MaxDim
DecodeOutcomes(f) ==
    CASE tGetFileType(f) = "Raster" ->
             IF Loadable(f)
             THEN {[kind |-> "picture", w |-> w, h |-> h, layers |-> 1, gl |-> TRUE,
                    opaque |-> o] : w \in Dims, h \in Dims, o \in BOOLEAN}
             ELSE {[kind |-> k, w |-> 0, h |-> 0, layers |-> 0, gl |-> TRUE,
                    opaque |-> TRUE] : k \in {"fail", "throw"}}
      [] tGetFileType(f) = "DDS" ->
             IF Loadable(f)
             THEN {[kind |-> "cubemap", w |-> w, h |-> w, layers |-> 1, gl |-> TRUE,
                    opaque |-> o] : w \in Dims, o \in BOOLEAN}
                  \cup {[kind |-> "texture2d", w |-> w, h |-> h, layers |-> n, gl |-> g,
                         opaque |-> o] :
                            w \in Dims, h \in Dims, n \in 1..MaxLayers, g \in BOOLEAN,
                            o \in BOOLEAN}
             ELSE {[kind |-> k, w |-> 0, h |-> 0, layers |-> 0, gl |-> TRUE,
                    opaque |-> TRUE] : k \in {"fail", "throw"}}
      [] OTHER -> {[kind |-> "fail", w |-> 0, h |-> 0, layers |-> 0, gl |-> TRUE,
                    opaque |-> TRUE]}

\* The members of a newly constructed aggregate that Load and Unload work on
\* (their default initializers are in the class declaration).
LoadMemberDefaults ==
    [Filetype |-> "Unknown",
     Pictures |-> << >>,
     AltPicture |-> NoPicture,
     AltPictureEnabled |-> FALSE,
     DDSCubemap |-> NoTexture,
     DDSTexture2D |-> NoTexture,
     TexIDPrimary |-> 0,
     TexIDAlt |-> 0,
     Info |-> [Width |-> 0, Height |-> 0, MemSizeBytes |-> 0, Mipmaps |-> 0],
     LoadedTime |-> -1]

\* TacitImage(filename)
NewImage(f) == [LoadMemberDefaults EXCEPT !.Filetype = tGetFileType(f)]

\* Pictures.Count() > 0
IsLoaded(a) == Len(a.Pictures) > 0

\* Pictures.First(), or NoPicture for the null pointer of an empty list.
First(a) == IF Len(a.Pictures) > 0 THEN a.Pictures[1] ELSE NoPicture

(***************************************************************************)
(* The state after construction of the aggregates in `live` with the file  *)
(* names of one of `names`, on a machine whose core count is in            *)
(* `coreCounts`.                                                           *)
(***************************************************************************)
\* The thumbnail members of a newly constructed aggregate (their default
\* initializers are in the class declaration): not requested, no worker.
ThumbnailMemberDefaults ==
    /\ ThumbnailRequested = [i \in Images |-> FALSE]
    /\ ThumbnailThreadRunning = [i \in Images |-> FALSE]
    /\ ThumbnailThreadFlag = [i \in Images |-> FALSE]
    /\ ThumbnailThread = [i \in Images |-> FALSE]
    /\ ThumbnailPicture = [i \in Images |-> Invalid]
    /\ TexIDThumbnail = [i \in Images |-> 0]

InitWith(live, names, coreCounts) ==
    /\ cores \in coreCounts
    /\ alive = [i \in Images |-> i \in live]
    /\ Filename \in names
    /\ ThumbnailMemberDefaults
    /\ ThumbnailNumThreadsRunning = 0
    /\ wpc = [i \in Images |-> "none"]
    /\ cache = [k \in Keys |-> NoFile]
    /\ main = Idle
    /\ crashed = NoCrash
    /\ joins = [i \in Images |-> 0]
    /\ decs = [i \in Images |-> 0]
    /\ clears = [i \in Images |-> 0]
    /\ cacheWrites = [k \in Keys |-> 0]
    /\ workerHashFile = [i \in Images |-> NoHashFile]
    /\ offscreenContext = [i \in Images |-> FALSE]
    /\ agg = [i \in Images |-> NewImage(Filename[i])]
    /\ result = [op |-> "none", img |-> NoImage, ret |-> TRUE]

\* Any files, one aggregate fewer than the model holds.  Aggregates are
\* interchangeable, so only one order of the file names is started from.
FewImages == 1..(NumImages - 1)
AnyNames ==
    {fn \in [Images -> Files] :
        /\ \A i \in Images \ FewImages : fn[i] = "noext"
        /\ \A i, j \in FewImages : i < j => FileRank(fn[i]) <= FileRank(fn[j])}
Init == InitWith(FewImages, AnyNames, 1..MaxCores) /\ srcPic = NoSrcPic

\* More aggregates than the smallest worker budget: raster files and one DDS file.
BudgetNames == {[i \in Images |-> IF i = NumImages THEN "ok.dds" ELSE "ok.png"]}
InitBudget == InitWith(Images, BudgetNames, 1..MaxCores) /\ srcPic = NoSrcPic

CanCall(i) == crashed = NoCrash /\ main = Idle /\ alive[i]

\* The two early returns of RequestThumbnail do not happen.
AdmittedOffByOne(i) ==
    ~ThumbnailRequested[i] /\ ~(ThumbnailNumThreadsRunning > numThreadsMax)

AdmittedAgain(i) == ~(ThumbnailNumThreadsRunning >= numThreadsMax)

Admitted(i) ==
    ~ThumbnailRequested[i] /\ ~(ThumbnailNumThreadsRunning >= numThreadsMax)

\* std::atomic_flag::test_and_set on ThumbnailThreadFlag: the flag afterwards.
test_only(i) == ThumbnailThreadFlag

test_and_set(i) == [ThumbnailThreadFlag EXCEPT ![i] = TRUE]

\* ThumbnailNumThreadsRunning++ with the increment lost.
NumThreadsRunningIncrementLost == ThumbnailNumThreadsRunning

\* ThumbnailNumThreadsRunning++ of RequestThumbnail: a plain int, read and
\* written by the calling thread in the same call as the comparison.
NumThreadsRunningIncremented == ThumbnailNumThreadsRunning + 1

(***************************************************************************)
(* TacitImage::RequestThumbnail                                            *)
(***************************************************************************)
RequestThumbnail(i) ==
    /\ CanCall(i)
    /\ IF ~Admitted(i)
       THEN UNCHANGED vars
       ELSE /\ ThumbnailRequested' = [ThumbnailRequested EXCEPT ![i] = TRUE]
            /\ ThumbnailThreadRunning' = [ThumbnailThreadRunning EXCEPT ![i] = TRUE]
            /\ ThumbnailNumThreadsRunning' = NumThreadsRunningIncremented
            /\ ThumbnailThreadFlag' = test_and_set(i)
            /\ IF ThumbnailThread[i]
               THEN \* move-assignment onto a joinable std::thread calls std::terminate
                    /\ crashed' = Crash("terminate", i)
                    /\ UNCHANGED <<ThumbnailThread, wpc>>
               ELSE /\ ThumbnailThread' = [ThumbnailThread EXCEPT ![i] = TRUE]
                    /\ wpc' = [wpc EXCEPT ![i] = "check"]
                    /\ UNCHANGED crashed
            /\ joins' = [joins EXCEPT ![i] = 0]
            /\ decs' = [decs EXCEPT ![i] = 0]
            /\ clears' = [clears EXCEPT ![i] = 0]
            /\ UNCHANGED <<cores, alive, Filename, ThumbnailPicture, TexIDThumbnail,
                           cache, main, cacheWrites>>
    /\ UNCHANGED <<workerHashFile, offscreenContext, srcPic, loadVars>>

(***************************************************************************)
(* TacitImage::BindThumbnail, in three steps of the owning thread: the     *)
(* test of the completion flag, the join with the bookkeeping that follows *)
(* it, and the read of the thumbnail picture.                              *)
(***************************************************************************)
\* Where BindThumbnail goes after the test of the flag.
BindNextNoRunningCheck(i) ==
    IF ~ThumbnailThreadFlag[i] THEN At("bind_join", i) ELSE At("bind_read", i)

BindNextJoinIfRunning(i) ==
    IF ThumbnailThreadRunning[i] THEN At("bind_join", i) ELSE At("bind_read", i)

BindNext(i) ==
    IF ~ThumbnailThreadFlag[i] THEN At("bind_join", i)     \* join, then line 682
    ELSE IF ThumbnailThreadRunning[i] THEN Idle             \* return 0
    ELSE At("bind_read", i)

BindThumbnail(i) ==
    /\ CanCall(i)
    /\ IF ~ThumbnailRequested[i]
       THEN UNCHANGED vars                                  \* return 0
       ELSE /\ ThumbnailThreadFlag' = test_and_set(i)
            /\ main' = BindNext(i)
            /\ UNCHANGED <<cores, alive, Filename, ThumbnailRequested, ThumbnailThreadRunning,
                           ThumbnailThread, ThumbnailPicture, TexIDThumbnail,
                           ThumbnailNumThreadsRunning, wpc, cache, crashed, histVars>>
    /\ UNCHANGED <<workerHashFile, offscreenContext, srcPic, loadVars>>

\* ThumbnailThread.join() returns once the worker's thread function has returned.
BindJoin(i) ==
    /\ crashed = NoCrash
    /\ main = At("bind_join", i)
    /\ IF ~ThumbnailThread[i]
       THEN \* join() of a thread that is not joinable throws std::system_error
            /\ crashed' = Crash("terminate", i)
            /\ joins' = [joins EXCEPT ![i] = @ + 1]
            /\ UNCHANGED <<cores, alive, Filename, thumbVars, cache, main, decs, clears,
                           cacheWrites>>
       ELSE /\ wpc[i] = "done"
            /\ ThumbnailThread' = [ThumbnailThread EXCEPT ![i] = FALSE]
            /\ wpc' = [wpc EXCEPT ![i] = "none"]
            /\ ThumbnailThreadRunning' = [ThumbnailThreadRunning EXCEPT ![i] = FALSE]
            /\ ThumbnailNumThreadsRunning' = ThumbnailNumThreadsRunning - 1
            /\ joins' = [joins EXCEPT ![i] = @ + 1]
            /\ decs' = [decs EXCEPT ![i] = @ + 1]
            /\ clears' = [clears EXCEPT ![i] = @ + 1]
            /\ main' = At("bind_read", i)
            /\ UNCHANGED <<cores, alive, Filename, ThumbnailRequested, ThumbnailThreadFlag,
                           ThumbnailPicture, TexIDThumbnail, cache, crashed, cacheWrites>>
    /\ UNCHANGED <<workerHashFile, offscreenContext, srcPic, loadVars>>

BindRead(i) ==
    /\ crashed = NoCrash
    /\ main = At("bind_read", i)
    /\ main' = Idle
    /\ IF ThumbnailPicture[i] # Invalid /\ TexIDThumbnail[i] = 0
       THEN \E id \in {0, i} :                              \* glGenTextures
                TexIDThumbnail' = [TexIDThumbnail EXCEPT ![i] = id]
       ELSE UNCHANGED TexIDThumbnail
    /\ UNCHANGED <<cores, alive, Filename, ThumbnailRequested, ThumbnailThreadRunning,
                   ThumbnailThreadFlag, ThumbnailThread, ThumbnailPicture,
                   ThumbnailNumThreadsRunning, wpc, cache, crashed, histVars>>
    /\ UNCHANGED <<workerHashFile, offscreenContext, srcPic, loadVars>>

(***************************************************************************)
(* TacitImage::UnrequestThumbnail: the short-circuit condition reads the   *)
(* two flags first and the thumbnail picture only when they allow it.      *)
(***************************************************************************)
\* The part of the condition evaluated before ThumbnailPicture.IsValid().
UnrequestNoRunningCheck(i) == ThumbnailRequested[i]

UnrequestReadsPicture(i) == ThumbnailRequested[i] /\ ~ThumbnailThreadRunning[i]

UnrequestThumbnail(i) ==
    /\ CanCall(i)
    /\ IF UnrequestReadsPicture(i)
       THEN /\ main' = At("unreq_read", i)
            /\ UNCHANGED <<cores, alive, Filename, thumbVars, cache, crashed, histVars>>
       ELSE UNCHANGED vars
    /\ UNCHANGED <<workerHashFile, offscreenContext, srcPic, loadVars>>

UnrequestResetsAlways(i) == TRUE

UnrequestResets(i) == ThumbnailPicture[i] = Invalid         \* !ThumbnailPicture.IsValid()

UnrequestRead(i) ==
    /\ crashed = NoCrash
    /\ main = At("unreq_read", i)
    /\ main' = Idle
    /\ ThumbnailRequested' = [ThumbnailRequested EXCEPT
                                 ![i] = IF UnrequestResets(i) THEN FALSE ELSE @]
    /\ UNCHANGED <<cores, alive, Filename, ThumbnailThreadRunning, ThumbnailThreadFlag,
                   ThumbnailThread, ThumbnailPicture, TexIDThumbnail,
                   ThumbnailNumThreadsRunning, wpc, cache, crashed, histVars>>
    /\ UNCHANGED <<workerHashFile, offscreenContext, srcPic, loadVars>>

(***************************************************************************)
(* TacitImage::~TacitImage: joins a joinable worker, nothing else.         *)
(***************************************************************************)
\* The destructor returns: there is no joinable worker, or join() has returned.
DestructorDetaches(i) == TRUE

DestructorReturns(i) == ThumbnailThread[i] => wpc[i] = "done"

Destroy(i) ==
    /\ CanCall(i)
    /\ DestructorReturns(i)
    /\ alive' = [alive EXCEPT ![i] = FALSE]
    /\ ThumbnailRequested' = [ThumbnailRequested EXCEPT ![i] = FALSE]
    /\ ThumbnailThreadRunning' = [ThumbnailThreadRunning EXCEPT ![i] = FALSE]
    /\ ThumbnailThreadFlag' = [ThumbnailThreadFlag EXCEPT ![i] = FALSE]
    /\ ThumbnailThread' = [ThumbnailThread EXCEPT ![i] = FALSE]
    /\ ThumbnailPicture' = [ThumbnailPicture EXCEPT ![i] = Invalid]
    /\ TexIDThumbnail' = [TexIDThumbnail EXCEPT ![i] = 0]
    /\ wpc' = [wpc EXCEPT ![i] = IF @ = "done" THEN "none" ELSE @]   \* the joined thread
    /\ joins' = [joins EXCEPT ![i] = 0]
    /\ decs' = [decs EXCEPT ![i] = 0]
    /\ clears' = [clears EXCEPT ![i] = 0]
    /\ UNCHANGED <<cores, Filename, ThumbnailNumThreadsRunning, cache, main, crashed,
                   cacheWrites>>
    /\ agg' = [agg EXCEPT ![i] = NewImage(Filename[i])]
    /\ UNCHANGED <<workerHashFile, offscreenContext, srcPic, result>>

(***************************************************************************)
(* The private load of GenerateThumbnail: what GetPrimaryPicture() of the  *)
(* worker's own aggregate is after thumbLoader.Load(Filename).             *)
(*   "null"    no picture in the list                                      *)
(*   "invalid" a picture was appended but holds no pixels                  *)
(*   "valid"   a decoded picture                                           *)
(***************************************************************************)
PrivateLoad(f) ==
    CASE tGetFileType(f) = "Unknown" -> {"null"}
      [] tGetFileType(f) = "DDS" -> IF Loadable(f) THEN {"valid", "null"} ELSE {"null"}
      [] OTHER -> IF Loadable(f) THEN {"valid"} ELSE {"invalid"}

(***************************************************************************)
(* The worker thread: TacitImage::GenerateThumbnail followed by the clear  *)
(* of the completion flag (the lambda of RequestThumbnail).                *)
(***************************************************************************)
WorkerStep(i, pc) ==
    /\ crashed = NoCrash
    /\ wpc[i] = pc

\* tFileExists(hashFile)
CacheHitNever(i) == FALSE

CacheHit(i) == cache[CacheKey(i)] # NoFile

\* Early return, cache key, existence test and cache read.
GenerateThumbnailCheck(i) ==
    /\ WorkerStep(i, "check")
    /\ IF ThumbnailPicture[i] # Invalid
       THEN /\ wpc' = [wpc EXCEPT ![i] = "clear"]
            /\ UNCHANGED <<ThumbnailPicture, workerHashFile>>
       ELSE IF CacheHit(i)
       THEN /\ wpc' = [wpc EXCEPT ![i] = "clear"]
            /\ \E p \in {cache[CacheKey(i)], Invalid} :      \* the chunk read may fail
                   ThumbnailPicture' = [ThumbnailPicture EXCEPT ![i] = p]
            /\ UNCHANGED workerHashFile
       ELSE /\ wpc' = [wpc EXCEPT ![i] = IF tGetFileType(Filename[i]) = "DDS"
                                         THEN "ctx" ELSE "load"]
            /\ workerHashFile' = [workerHashFile EXCEPT ![i] = CacheKey(i)]
            /\ UNCHANGED ThumbnailPicture
    /\ UNCHANGED <<cores, alive, Filename, ThumbnailRequested, ThumbnailThreadRunning,
                   ThumbnailThreadFlag, ThumbnailThread, TexIDThumbnail,
                   ThumbnailNumThreadsRunning, cache, main, crashed, histVars>>
    /\ UNCHANGED <<offscreenContext, srcPic, loadVars>>

\* glfwCreateWindow of the hidden window for DDS sources.
GenerateThumbnailContext(i) ==
    /\ WorkerStep(i, "ctx")
    /\ \E created \in BOOLEAN :
           /\ wpc' = [wpc EXCEPT ![i] = IF created THEN "load" ELSE "clear"]
           /\ workerHashFile' = [workerHashFile EXCEPT ![i] = IF created THEN @ ELSE NoHashFile]
           /\ offscreenContext' = [offscreenContext EXCEPT ![i] = created]
    /\ UNCHANGED <<cores, alive, Filename, ThumbnailRequested, ThumbnailThreadRunning,
                   ThumbnailThreadFlag, ThumbnailThread, ThumbnailPicture, TexIDThumbnail,
                   ThumbnailNumThreadsRunning, cache, main, crashed, histVars>>
    /\ UNCHANGED <<srcPic, loadVars>>

\* thumbLoader.Load, release of the context, resample, crop, ThumbnailPicture.Set.
GenerateThumbnailLoad(i) ==
    /\ WorkerStep(i, "load")
    /\ \E primary \in PrivateLoad(Filename[i]) :
           IF primary = "null"
           THEN \* tAssert(srcPic) fails, or without assertions srcPic->GetWidth() on null
                /\ \E how \in {"assert", "nullderef"} : crashed' = Crash(how, i)
                /\ UNCHANGED <<wpc, ThumbnailPicture>>
           ELSE /\ ThumbnailPicture' = [ThumbnailPicture EXCEPT
                        ![i] = IF primary = "valid" THEN Filename[i] ELSE Invalid]
                /\ wpc' = [wpc EXCEPT ![i] = "write"]
                /\ UNCHANGED crashed
    /\ UNCHANGED <<cores, alive, Filename, ThumbnailRequested, ThumbnailThreadRunning,
                   ThumbnailThreadFlag, ThumbnailThread, TexIDThumbnail,
                   ThumbnailNumThreadsRunning, cache, main, histVars>>
    \* if (Filetype == DDS) { glfwMakeContextCurrent(nullptr); glfwDestroyWindow(...); }
    /\ offscreenContext' = [offscreenContext EXCEPT
            ![i] = IF tGetFileType(Filename[i]) = "DDS" THEN FALSE ELSE @]
    /\ UNCHANGED <<workerHashFile, srcPic, loadVars>>

(***************************************************************************)
(* The resize of GenerateThumbnail: the intermediate size, the resample    *)
(* and the crop to the thumbnail size.                                     *)
(***************************************************************************)
\* int(tRound(float(n) * (float(t) / float(d)))): the nearest integer of
\* n*t/d.  The product is a rounded float, so a quotient exactly half way
\* between two integers may come out on either side.
tRound(num, den) ==
    LET twice == (2 * num) \div den
    IN  IF (2 * num) % den = 0 /\ twice % 2 = 1
        THEN {(twice - 1) \div 2, (twice + 1) \div 2}
        ELSE {(twice + 1) \div 2}

\* The intermediate size chosen by the larger of the two scales.
IntermediateSizeLargerScale(srcW, srcH) ==
    IF ThumbWidth * srcH > ThumbHeight * srcW
    THEN {<<ThumbWidth, ih>> : ih \in tRound(srcH * ThumbWidth, srcW)}
    ELSE {<<iw, ThumbHeight>> : iw \in tRound(srcW * ThumbHeight, srcH)}

\* scaleX = ThumbWidth/srcW, scaleY = ThumbHeight/srcH; the pairs <<iw, ih>>.
IntermediateSize(srcW, srcH) ==
    IF ThumbWidth * srcH < ThumbHeight * srcW                  \* scaleX < scaleY
    THEN {<<ThumbWidth, ih>> : ih \in tRound(srcH * ThumbWidth, srcW)}
    ELSE {<<iw, ThumbHeight>> : iw \in tRound(srcW * ThumbHeight, srcH)}

\* How many of the newLen columns (rows) starting at origin lie below 0 and
\* how many lie at or above len.
PadBefore(len, newLen, origin) ==
    IF origin >= 0 THEN 0 ELSE IF -origin > newLen THEN newLen ELSE -origin

PadAfter(len, newLen, origin) ==
    IF origin + newLen <= len THEN 0
    ELSE IF origin >= len THEN newLen ELSE origin + newLen - len

\* tPicture::Crop(newW, newH) about the middle: pixel (x, y) of the result is
\* pixel (x + originX, y + originY) of the picture, transparent where there
\* is none.  Row 0 is the bottom row.
CropOf(pic, newW, newH) ==
    LET originX == (pic.Width \div 2) - (newW \div 2)
        originY == (pic.Height \div 2) - (newH \div 2)
    IN  [pic EXCEPT !.stage = "cropped", !.Width = newW, !.Height = newH,
                    !.padLeft = PadBefore(pic.Width, newW, originX),
                    !.padRight = PadAfter(pic.Width, newW, originX),
                    !.padBottom = PadBefore(pic.Height, newH, originY),
                    !.padTop = PadAfter(pic.Height, newH, originY)]

\* The picture thumbLoader.GetPrimaryPicture() returns after a successful load.
LoadedSrcPic(w, h) ==
    [stage |-> "loaded", srcW |-> w, srcH |-> h, Width |-> w, Height |-> h,
     iw |-> 0, ih |-> 0, padLeft |-> 0, padRight |-> 0, padBottom |-> 0, padTop |-> 0]

\* srcPic->Resample(iw, ih, Bilinear).  The value it returns is not tested:
\* asked for a size without area it either refuses and leaves the picture as
\* it is, or leaves a picture without pixels.
GenerateThumbnailResample ==
    /\ srcPic.stage = "loaded"
    /\ \E size \in IntermediateSize(srcPic.Width, srcPic.Height) :
           IF size[1] >= 1 /\ size[2] >= 1
           THEN srcPic' = [srcPic EXCEPT !.stage = "resampled",
                                         !.iw = size[1], !.ih = size[2],
                                         !.Width = size[1], !.Height = size[2]]
           ELSE \E refused \in BOOLEAN :
                    srcPic' = [srcPic EXCEPT !.stage = "resampled",
                                             !.iw = size[1], !.ih = size[2],
                                             !.Width = IF refused THEN @ ELSE 0,
                                             !.Height = IF refused THEN @ ELSE 0]
    /\ UNCHANGED <<cores, alive, Filename, thumbVars, cache, main, crashed, histVars,
                   workerHashFile, offscreenContext, loadVars>>

\* srcPic->Crop(ThumbWidth, ThumbHeight); a picture without pixels stays one.
GenerateThumbnailCrop ==
    /\ srcPic.stage = "resampled"
    /\ srcPic' = IF srcPic.Width >= 1 /\ srcPic.Height >= 1
                 THEN CropOf(srcPic, ThumbWidth, ThumbHeight)
                 ELSE [srcPic EXCEPT !.stage = "cropped"]
    /\ UNCHANGED <<cores, alive, Filename, thumbVars, cache, main, crashed, histVars,
                   workerHashFile, offscreenContext, loadVars>>


\* tChunkWriter writer(hashFile); ThumbnailPicture.Save(writer).
GenerateThumbnailWrite(i) ==
    /\ WorkerStep(i, "write")
    /\ wpc' = [wpc EXCEPT ![i] = "clear"]
    /\ \E written \in BOOLEAN :
           IF written
           THEN /\ cache' = [cache EXCEPT ![workerHashFile[i]] = ThumbnailPicture[i]]
                /\ cacheWrites' = [cacheWrites EXCEPT ![workerHashFile[i]] = @ + 1]
           ELSE UNCHANGED <<cache, cacheWrites>>
    /\ workerHashFile' = [workerHashFile EXCEPT ![i] = NoHashFile]
    /\ UNCHANGED <<cores, alive, Filename, ThumbnailRequested, ThumbnailThreadRunning,
                   ThumbnailThreadFlag, ThumbnailThread, ThumbnailPicture, TexIDThumbnail,
                   ThumbnailNumThreadsRunning, main, crashed, joins, decs, clears>>
    /\ UNCHANGED <<offscreenContext, srcPic, loadVars>>

\* ThumbnailThreadFlag.clear(), the last statement of the thread function.
WorkerClearFlag(i) ==
    /\ WorkerStep(i, "clear")
    /\ ThumbnailThreadFlag' = [ThumbnailThreadFlag EXCEPT ![i] = FALSE]
    /\ wpc' = [wpc EXCEPT ![i] = "done"]
    /\ UNCHANGED <<cores, alive, Filename, ThumbnailRequested, ThumbnailThreadRunning,
                   ThumbnailThread, ThumbnailPicture, TexIDThumbnail,
                   ThumbnailNumThreadsRunning, cache, main, crashed, histVars>>
    /\ UNCHANGED <<workerHashFile, offscreenContext, srcPic, loadVars>>

(***************************************************************************)
(* Queries of the displayed representation.                                *)
(***************************************************************************)
GetWidth(a) ==
    IF IsValid(a.AltPicture) /\ a.AltPictureEnabled THEN a.AltPicture.Width
    ELSE IF Len(a.Pictures) > 0 /\ IsValid(First(a)) THEN First(a).Width
    ELSE 0

\* The height of the first picture whether or not the alt picture is shown.
GetHeightOfPrimary(a) ==
    IF Len(a.Pictures) > 0 /\ IsValid(First(a)) THEN First(a).Height ELSE 0

GetHeight(a) ==
    IF IsValid(a.AltPicture) /\ a.AltPictureEnabled THEN a.AltPicture.Height
    ELSE IF Len(a.Pictures) > 0 /\ IsValid(First(a)) THEN First(a).Height
    ELSE 0

GetPixel(a, x, y) ==
    IF IsValid(a.AltPicture) /\ a.AltPictureEnabled THEN a.AltPicture.Pixels[<<x, y>>]
    ELSE IF Len(a.Pictures) > 0 /\ IsValid(First(a)) THEN First(a).Pixels[<<x, y>>]
    ELSE black

IsOpaque(a) ==
    IF a.DDSCubemap.NumLayers > 0 THEN a.DDSCubemap.Opaque      \* AllSidesOpaque()
    ELSE IF a.DDSTexture2D.NumLayers > 0 THEN a.DDSTexture2D.Opaque
    ELSE IF Len(a.Pictures) > 0 /\ IsValid(First(a)) THEN IsOpaquePicture(First(a))
    ELSE TRUE

RECURSIVE SumNumPixels(_)
SumNumPixels(pics) ==
    IF pics = << >> THEN 0 ELSE GetNumPixels(Head(pics)) + SumNumPixels(Tail(pics))

RECURSIVE SumWidths(_)
SumWidths(pics) ==
    IF pics = << >> THEN 0 ELSE Head(pics).Width + SumWidths(Tail(pics))

GetMemSizeBytes(a) ==
    SumNumPixels(a.Pictures) * sizeofPixel
        + (IF IsValid(a.AltPicture) THEN GetNumPixels(a.AltPicture) * sizeofPixel ELSE 0)

(***************************************************************************)
(* DDS sources: conversion of the container into the mip chain, and the    *)
(* alt picture made of it.                                                 *)
(***************************************************************************)
\* The sides in the order of the enumeration tCubemap::tSide.
sideOrderOfSides == <<"PosX", "NegX", "PosY", "NegY", "PosZ", "NegZ">>

sideOrder == <<"PosZ", "NegZ", "PosX", "NegX", "PosY", "NegY">>

\* w >> level
ShiftRight(w, level) == w \div (2 ^ level)

ConvertTexture2DToPicture(a, gl) ==
    IF a.DDSTexture2D.NumLayers = 0 \/ ~(Len(a.Pictures) <= 0) \/ ~gl THEN a
    ELSE [a EXCEPT !.Pictures =
             [n \in 1..a.DDSTexture2D.NumLayers |->
                 DecodedPicture(ToString(n - 1),
                                tClampMin(ShiftRight(a.DDSTexture2D.Width, n - 1), 1),
                                tClampMin(ShiftRight(a.DDSTexture2D.Height, n - 1), 1),
                                a.DDSTexture2D.Opaque)]]

ConvertCubemapToPicture(a) ==
    IF a.DDSCubemap.NumLayers = 0 \/ ~(Len(a.Pictures) <= 0) THEN a
    ELSE [a EXCEPT !.Pictures =
             [s \in 1..Len(sideOrder) |->
                 DecodedPicture(sideOrder[s], a.DDSCubemap.Width, a.DDSCubemap.Height,
                                a.DDSCubemap.Opaque)]]

\* The layers side by side, left to right, on a transparent picture.
CreateAltPictureDDS2DMipmaps(a) ==
    LET width == SumWidths(a.Pictures)
        height == GetHeight(a)
        originX(n) == SumWidths(SubSeq(a.Pictures, 1, n - 1))
        covers(n, c) == /\ originX(n) <= c[1] /\ c[1] < originX(n) + a.Pictures[n].Width
                        /\ c[2] < a.Pictures[n].Height
        layerAt(c) == {n \in 1..Len(a.Pictures) : covers(n, c)}
    IN  [a EXCEPT !.AltPicture =
            [Width |-> width, Height |-> height,
             Pixels |-> [c \in Coords(width, height) |->
                           IF layerAt(c) = {} THEN transparent
                           ELSE LET n == CHOOSE n \in layerAt(c) : TRUE
                                IN  a.Pictures[n].Pixels[<<c[1] - originX(n), c[2]>>]]]]

\* The six faces as a cross on a transparent picture of 4 by 3 faces.
CreateAltPictureDDSCubemap(a) ==
    LET width == First(a).Width
        height == First(a).Height
        origin == << <<width, height>>, <<3 * width, height>>, <<2 * width, height>>,
                     <<0, height>>, <<width, 2 * height>>, <<width, 0>> >>
        covers(n, c) == /\ origin[n][1] <= c[1] /\ c[1] < origin[n][1] + a.Pictures[n].Width
                        /\ origin[n][2] <= c[2] /\ c[2] < origin[n][2] + a.Pictures[n].Height
        faceAt(c) == {n \in 1..Len(origin) : covers(n, c)}
    IN  [a EXCEPT !.AltPicture =
            [Width |-> width * 4, Height |-> height * 3,
             Pixels |-> [c \in Coords(width * 4, height * 3) |->
                           IF faceAt(c) = {} THEN transparent
                           ELSE LET n == CHOOSE n \in faceAt(c) : TRUE
                                IN  a.Pictures[n].Pixels[<<c[1] - origin[n][1],
                                                           c[2] - origin[n][2]>>]]]]

(***************************************************************************)
(* TacitImage::Load() on the members a of an aggregate whose file is f,    *)
(* the decoder giving `out` and the clock t: the members afterwards and    *)
(* the value returned.                                                     *)
(***************************************************************************)
\* Loading again what is loaded: one more picture from the decoder.
LoadAgain(a, out, t) ==
    [a |-> [a EXCEPT !.Pictures = Append(@, DecodedPicture("0", out.w, out.h, out.opaque)),
                     !.LoadedTime = t],
     ret |-> TRUE]

\* The early return of a loaded aggregate.
LoadRefresh(a, out, t) == [a |-> [a EXCEPT !.LoadedTime = t], ret |-> TRUE]

\* The decoders of the try block.
Decode(a, out) ==
    IF a.Filetype = "DDS"
    THEN CASE out.kind = "cubemap" ->
                  [a EXCEPT !.DDSCubemap =
                       [Width |-> out.w, Height |-> out.h, NumLayers |-> out.layers,
                        Opaque |-> out.opaque]]
           [] out.kind = "texture2d" ->
                  [a EXCEPT !.DDSCubemap = NoTexture,
                            !.DDSTexture2D =
                       [Width |-> out.w, Height |-> out.h, NumLayers |-> out.layers,
                        Opaque |-> out.opaque]]
           [] OTHER -> [a EXCEPT !.DDSCubemap = NoTexture, !.DDSTexture2D = NoTexture]
    ELSE [a EXCEPT !.Pictures =
             Append(@, IF out.kind = "picture"
                       THEN DecodedPicture("0", out.w, out.h, out.opaque)
                       ELSE NoPicture)]

Convert(a, out) ==
    IF a.Filetype # "DDS" THEN a
    ELSE IF a.DDSCubemap.NumLayers > 0 THEN ConvertCubemapToPicture(a)
    ELSE IF a.DDSTexture2D.NumLayers > 0 THEN ConvertTexture2DToPicture(a, out.gl)
    ELSE a

FillInfo(a, t) ==
    [a EXCEPT !.LoadedTime = t,
              !.Info = [Width |-> GetWidth(a), Height |-> GetHeight(a),
                        MemSizeBytes |-> GetMemSizeBytes(a),
                        Mipmaps |-> Len(a.Pictures)]]

CreateAltPicture(a) ==
    IF a.DDSCubemap.NumLayers > 0 THEN CreateAltPictureDDSCubemap(a)
    ELSE IF a.DDSTexture2D.NumLayers > 0 /\ a.Info.Mipmaps > 1
    THEN CreateAltPictureDDS2DMipmaps(a)
    ELSE a

LoadFresh(a, out, t) ==
    IF a.Filetype = "Unknown" THEN [a |-> a, ret |-> FALSE]
    ELSE LET success == out.kind \in {"picture", "cubemap", "texture2d"}
             converted == Convert(Decode(a, out), out)
         IN  [a |-> IF success THEN CreateAltPicture(FillInfo(converted, t)) ELSE converted,
              ret |-> success]

LoadOf(a, out, t) == IF IsLoaded(a) THEN LoadRefresh(a, out, t) ELSE LoadFresh(a, out, t)

\* Unbind leaving the handle of the alt picture.
UnbindPrimary(a) == [a EXCEPT !.TexIDPrimary = 0]

Unbind(a) == [a EXCEPT !.TexIDPrimary = 0, !.TexIDAlt = 0]

UnloadOf(a) ==
    IF ~IsLoaded(a) THEN a
    ELSE [Unbind(a) EXCEPT !.DDSTexture2D = NoTexture,
                           !.DDSCubemap = NoTexture,
                           !.AltPicture = NoPicture,
                           !.AltPictureEnabled = FALSE,
                           !.Pictures = << >>,
                           !.Info.MemSizeBytes = 0,
                           !.LoadedTime = -1]

\* TacitImage::Bind, name being what glGenTextures gives (0: none).
BindOf(a, name) ==
    IF a.AltPictureEnabled /\ IsValid(a.AltPicture)
    THEN IF a.TexIDAlt # 0 THEN a ELSE [a EXCEPT !.TexIDAlt = name]
    ELSE IF a.TexIDPrimary # 0 THEN a
    ELSE IF ~IsLoaded(a) THEN a
    ELSE [a EXCEPT !.TexIDPrimary = name]

EmptyName == ""

\* What the decoders are asked for by Load on the members a for the file f:
\* nothing when a is loaded, as Load then returns before it calls them.
NoDecode == [kind |-> "none", w |-> 0, h |-> 0, layers |-> 0, gl |-> TRUE]
Decoded(a, f) == IF IsLoaded(a) THEN {NoDecode} ELSE DecodeOutcomes(f)
TexNames == {0, 1}
\* Load()
Load(i) ==
    /\ CanCall(i)
    /\ \E out \in Decoded(agg[i], Filename[i]), t \in 0..MaxTime :
           LET r == LoadOf(agg[i], out, t)
           IN  /\ agg' = [agg EXCEPT ![i] = r.a]
               /\ result' = [op |-> "Load", img |-> i, ret |-> r.ret]
    /\ UNCHANGED <<cores, alive, Filename, thumbVars, cache, main, crashed, histVars,
                   workerHashFile, offscreenContext, srcPic>>

\* Load(filename) with the file name f
LoadFilename(i, f) ==
    /\ CanCall(i)
    /\ IF f = EmptyName
       THEN /\ result' = [op |-> "Load", img |-> i, ret |-> FALSE]
            /\ UNCHANGED <<Filename, agg>>
       ELSE \E out \in Decoded(agg[i], f), t \in 0..MaxTime :
                LET r == LoadOf([agg[i] EXCEPT !.Filetype = tGetFileType(f)], out, t)
                IN  /\ Filename' = [Filename EXCEPT ![i] = f]
                    /\ agg' = [agg EXCEPT ![i] = r.a]
                    /\ result' = [op |-> "Load", img |-> i, ret |-> r.ret]
    /\ UNCHANGED <<cores, alive, thumbVars, cache, main, crashed, histVars,
                   workerHashFile, offscreenContext, srcPic>>

\* Load(filename) with any file name, the empty one included
LoadPath(i) == \E f \in Files \cup {EmptyName} : LoadFilename(i, f)

\* Load(filename) with the name of a raster file or of a DDS file
RaceFiles == {"ok.png", "ok.dds"}
LoadOtherFile(i) == \E f \in RaceFiles : LoadFilename(i, f)

Unload(i) ==
    /\ CanCall(i)
    /\ agg' = [agg EXCEPT ![i] = UnloadOf(agg[i])]
    /\ result' = [op |-> "Unload", img |-> i, ret |-> TRUE]
    /\ UNCHANGED <<cores, alive, Filename, thumbVars, cache, main, crashed, histVars,
                   workerHashFile, offscreenContext, srcPic>>

Bind(i) ==
    /\ CanCall(i)
    /\ \E name \in TexNames : agg' = [agg EXCEPT ![i] = BindOf(agg[i], name)]
    /\ UNCHANGED <<cores, alive, Filename, thumbVars, cache, main, crashed, histVars,
                   workerHashFile, offscreenContext, srcPic, result>>

\* The visibility toggle of the alt picture.
EnableAltPicture(i) ==
    /\ CanCall(i)
    /\ \E enabled \in BOOLEAN :
           agg' = [agg EXCEPT ![i].AltPictureEnabled = enabled]
    /\ UNCHANGED <<cores, alive, Filename, thumbVars, cache, main, crashed, histVars,
                   workerHashFile, offscreenContext, srcPic, result>>

Next ==
    \/ \E i \in Images : RequestThumbnail(i)
    \/ \E i \in Images : BindThumbnail(i)
    \/ \E i \in Images : BindJoin(i)
    \/ \E i \in Images : BindRead(i)
    \/ \E i \in Images : UnrequestThumbnail(i)
    \/ \E i \in Images : UnrequestRead(i)
    \/ \E i \in Images : Destroy(i)
    \/ \E i \in Images : GenerateThumbnailCheck(i)
    \/ \E i \in Images : GenerateThumbnailContext(i)
    \/ \E i \in Images : GenerateThumbnailLoad(i)
    \/ \E i \in Images : GenerateThumbnailWrite(i)
    \/ \E i \in Images : WorkerClearFlag(i)

Spec == Init /\ [][Next]_vars

SpecBudget == InitBudget /\ [][Next]_vars

\* One aggregate, of any file, and the operations on its loaded representation.
OneImage == {1}
OneName == {fn \in [Images -> Files] : \A i \in Images \ OneImage : fn[i] = "noext"}
InitLoad == InitWith(OneImage, OneName, {MaxCores}) /\ srcPic = NoSrcPic

NextLoad ==
    \/ \E i \in Images : Load(i)
    \/ \E i \in Images : LoadPath(i)
    \/ \E i \in Images : Unload(i)
    \/ \E i \in Images : Bind(i)
    \/ \E i \in Images : EnableAltPicture(i)

SpecLoad == InitLoad /\ [][NextLoad]_vars

\* One aggregate, its thumbnail pipeline, and Load(path) called on it.
RaceNames == {fn \in OneName : \A i \in OneImage : fn[i] \in RaceFiles}
InitRace == InitWith(OneImage, RaceNames, {MaxCores}) /\ srcPic = NoSrcPic

NextRace ==
    \/ Next
    \/ \E i \in Images : LoadOtherFile(i)
    \/ \E i \in Images : Unload(i)

SpecRace == InitRace /\ [][NextRace]_vars

\* The resize alone, from the decoded sources of a grid of sizes and of the
\* most elongated ones.
MaxSrcSteps == 16
SrcDims == {1, 1000} \cup {25 * k : k \in 1..MaxSrcSteps}
InitResize ==
    /\ InitWith(OneImage, OneName, {MaxCores})
    /\ srcPic \in {LoadedSrcPic(w, h) : w \in SrcDims, h \in SrcDims}
NextResize == GenerateThumbnailResample \/ GenerateThumbnailCrop
SpecResize == InitResize /\ [][NextResize]_vars

(***************************************************************************)
(* Properties.                                                             *)
(***************************************************************************)
Running == {i \in Images : WorkerActive(i)}
WorkerBudget == IF cores - 2 > 2 THEN cores - 2 ELSE 2
ThumbState(i) == <<ThumbnailRequested[i], ThumbnailThreadRunning[i]>>

\* C1: the number of workers started and not yet finished never exceeds
\* max(cores - 2, 2), which is 2 for cores = 1, 2, 3 and 4.
AdmissionBound ==
    /\ Cardinality(Running) <= WorkerBudget
    /\ cores \in 1..4 => Cardinality(Running) <= 2

\* As many workers run as the budget allows while a further aggregate waits.
AdmissionBoundWitness ==
    /\ cores \in 1..4
    /\ Cardinality(Running) = 2
    /\ \E i \in Images : alive[i] /\ ~ThumbnailRequested[i]
    /\ main = Idle /\ crashed = NoCrash

\* C2: (requested, running) of an aggregate is one of NotRequested,
\* Requested+Running, Requested+Done; it changes only from NotRequested to
\* Requested+Running by an admitted RequestThumbnail, from Requested+Running to
\* Requested+Done once the worker has completed, and from Requested+Done to
\* NotRequested by UnrequestThumbnail.
ThumbnailStateMachine ==
    /\ [](\A i \in Images :
            ThumbState(i) \in {<<FALSE, FALSE>>, <<TRUE, TRUE>>, <<TRUE, FALSE>>})
    /\ [][\A i \in Images :
            (alive'[i] /\ ThumbState(i)' # ThumbState(i)) =>
               \/ /\ ThumbState(i) = <<FALSE, FALSE>> /\ ThumbState(i)' = <<TRUE, TRUE>>
                  /\ main = Idle /\ ThumbnailNumThreadsRunning < WorkerBudget
                  /\ wpc[i] = "none" /\ wpc'[i] = "check"
               \/ /\ ThumbState(i) = <<TRUE, TRUE>> /\ ThumbState(i)' = <<TRUE, FALSE>>
                  /\ wpc[i] = "done" /\ main = At("bind_join", i)
               \/ /\ ThumbState(i) = <<TRUE, FALSE>> /\ ThumbState(i)' = <<FALSE, FALSE>>
                  /\ main = At("unreq_read", i)]_vars

\* An aggregate is back in NotRequested after a full cycle.
ThumbnailStateMachineWitness ==
    \E i \in Images :
        alive[i] /\ ThumbState(i) = <<FALSE, FALSE>> /\ clears[i] = 1

\* C3: the owning thread is at a read of the thumbnail picture (in
\* BindThumbnail or UnrequestThumbnail) only when the worker of that aggregate
\* is not executing, and the picture changes only in a step of the worker
\* taken before it clears the completion flag, with the flag still set.
BufferHandoff ==
    /\ [](main.pc \in {"bind_read", "unreq_read"} => ~WorkerActive(main.img))
    /\ [][\A i \in Images :
            (alive'[i] /\ ThumbnailPicture'[i] # ThumbnailPicture[i]) =>
               /\ wpc[i] \in {"check", "load"}
               /\ wpc'[i] \in ActivePcs
               /\ ThumbnailThreadFlag[i] /\ ThumbnailThreadFlag'[i]
               /\ ~(main.img = i /\ main.pc \in {"bind_read", "unreq_read"})]_vars

\* The owner reads a picture that a worker has written.
BufferHandoffWitness ==
    /\ main.pc = "bind_read"
    /\ ThumbnailPicture[main.img] # Invalid

\* C4: for each admitted request the worker is joined, the counter
\* decremented and the running flag cleared at most once, all three in the
\* same step of BindThumbnail, and exactly once when completion has been
\* observed.
ReapExactlyOnce ==
    \A i \in Images :
        /\ joins[i] <= 1
        /\ decs[i] = joins[i] /\ clears[i] = joins[i]
        /\ (ThumbnailRequested[i] /\ ThumbnailThreadRunning[i]) => joins[i] = 0
        /\ (ThumbnailRequested[i] /\ ~ThumbnailThreadRunning[i]) => joins[i] = 1

\* BindThumbnail runs again on a request that was reaped before.
ReapExactlyOnceWitness ==
    \E i \in Images :
        /\ main = At("bind_read", i)
        /\ joins[i] = 1
        /\ TexIDThumbnail[i] # 0

\* C5: BindThumbnail waits in join() only for a worker that has cleared the
\* completion flag, the clear is the worker's last step, and a BindThumbnail
\* call made while the worker has not cleared the flag returns at once, without
\* joining.
NonBlockingPoll ==
    /\ [](main.pc = "bind_join" => wpc[main.img] = "done")
    /\ [][\A i \in Images :
            /\ (alive'[i] /\ ThumbnailThreadFlag[i] /\ ~ThumbnailThreadFlag'[i]) =>
                   (wpc[i] = "clear" /\ wpc'[i] = "done")
            /\ (BindThumbnail(i) /\ WorkerActive(i)) =>
                   (main' = Idle /\ UNCHANGED <<ThumbnailThread, joins, wpc>>)]_vars

\* BindThumbnail is about to join a worker.
NonBlockingPollWitness ==
    /\ main.pc = "bind_join"
    /\ ThumbnailThread[main.img]

\* C6: a RequestThumbnail call on an aggregate that is already requested, or
\* made while the counter is at or above max(cores - 2, 2), changes nothing;
\* an aggregate becomes requested only in a step of RequestThumbnail on it.
RejectedRequestNoChange ==
    [][\A i \in Images :
         /\ (RequestThumbnail(i) /\
               (ThumbnailRequested[i] \/ ThumbnailNumThreadsRunning >= WorkerBudget))
               => UNCHANGED vars
         /\ (alive'[i] /\ ~ThumbnailRequested[i] /\ ThumbnailRequested'[i])
               => (RequestThumbnail(i) /\ ThumbnailNumThreadsRunning < WorkerBudget)]_vars

\* A call is rejected by the budget, and one by an earlier request.
RejectedRequestWitness ==
    /\ main = Idle /\ crashed = NoCrash
    /\ ThumbnailNumThreadsRunning >= WorkerBudget
    /\ \E i \in Images : alive[i] /\ ~ThumbnailRequested[i]
    /\ \E i \in Images : alive[i] /\ ThumbnailRequested[i]

\* C7: UnrequestThumbnail clears ThumbnailRequested, and nothing else, exactly
\* when the aggregate is requested, its worker is not running and the
\* thumbnail picture is invalid; in every other state it changes no thumbnail
\* state.
UnrequestFrame ==
    [][\A i \in Images :
         LET permitted == /\ ThumbnailRequested[i]
                          /\ ~ThumbnailThreadRunning[i]
                          /\ ThumbnailPicture[i] = Invalid
         IN  /\ UnrequestThumbnail(i) => UNCHANGED thumbVars
             /\ UnrequestRead(i) =>
                   /\ ThumbnailRequested'[i] = (ThumbnailRequested[i] /\ ~permitted)
                   /\ \A j \in Images \ {i} : ThumbnailRequested'[j] = ThumbnailRequested[j]
                   /\ UNCHANGED <<ThumbnailThreadRunning, ThumbnailThreadFlag, ThumbnailThread,
                                  ThumbnailPicture, TexIDThumbnail,
                                  ThumbnailNumThreadsRunning, wpc>>
             /\ (alive'[i] /\ ThumbnailRequested[i] /\ ~ThumbnailRequested'[i]) =>
                   (UnrequestRead(i) /\ permitted)
             /\ (UnrequestThumbnail(i) /\ main' # Idle) =>
                   (ThumbnailRequested[i] /\ ~ThumbnailThreadRunning[i])]_vars

\* UnrequestThumbnail is at its read of a valid picture, which it keeps
\* requested, after it has reset another aggregate whose thumbnail failed.
UnrequestFrameWitness ==
    /\ main.pc = "unreq_read"
    /\ ThumbnailPicture[main.img] # Invalid
    /\ \E j \in Images : alive[j] /\ ~ThumbnailRequested[j] /\ clears[j] = 1

\* C8: an admitted request on a source that cannot be loaded completes
\* silently: the worker of that aggregate does not end the process, and once
\* completion has been observed the aggregate is requested, not running and
\* its thumbnail picture is invalid, so that UnrequestThumbnail resets it.
FailedSourceScenario ==
    \A i \in Images :
        (alive[i] /\ ~Loadable(Filename[i])) =>
            /\ crashed.img # i
            /\ (ThumbnailRequested[i] /\ joins[i] = 1) =>
                   (~ThumbnailThreadRunning[i] /\ ThumbnailPicture[i] = Invalid)

\* C9: no failure of the worker's private load (unknown file type,
\* unreadable source, decode failure, no headless context) ends in a failed
\* assertion or a null primary-picture dereference.
SilentNonFatalFailure == crashed.how \notin {"assert", "nullderef"}

\* C10: the cache file of a key is written at most once.
CacheWriteOnce == \A k \in Keys : cacheWrites[k] <= 1

\* C11: a worker that finds the cache file of its key reads it into the
\* thumbnail picture and returns: its next position is the clear of the
\* completion flag, not the decode context, the private load or the cache
\* write, and no cache file is written.
CacheHitFastPath ==
    [][\A i \in Images :
         (/\ GenerateThumbnailCheck(i)
          /\ ThumbnailPicture[i] = Invalid
          /\ cache[hashFile(Filename[i])] # NoFile)
         => /\ wpc'[i] = "clear"
            /\ ThumbnailPicture'[i] \in {cache[hashFile(Filename[i])], Invalid}
            /\ UNCHANGED <<cache, cacheWrites>>]_vars

\* Two aggregates of one file have its thumbnail and the cache file was
\* written once: the other worker read the file and is about to return.
CacheHitFastPathWitness ==
    \E i, j \in Images :
        /\ i # j /\ alive[i] /\ alive[j] /\ Filename[i] = Filename[j]
        /\ cacheWrites[CacheKey(i)] = 1
        /\ wpc[i] = "clear" /\ ThumbnailPicture[i] = cache[CacheKey(i)]
        /\ wpc[j] = "done" /\ ThumbnailPicture[j] = cache[CacheKey(j)]
        /\ ThumbnailPicture[i] # Invalid
        /\ crashed = NoCrash

\* C12: a worker that finds the cache file of its key but gets no valid
\* picture out of it goes on to recompute the thumbnail (decode context or
\* private load) instead of returning with an invalid picture.
CacheReadFailureIsMiss ==
    [][\A i \in Images :
         (/\ GenerateThumbnailCheck(i)
          /\ ThumbnailPicture[i] = Invalid
          /\ cache[hashFile(Filename[i])] # NoFile
          /\ ThumbnailPicture'[i] = Invalid)
         => wpc'[i] \in {"ctx", "load"}]_vars

\* What the worker computes for the file f: its thumbnail, or an invalid
\* picture when the file cannot be decoded.
ThumbnailOf(f) == IF Loadable(f) THEN f ELSE Invalid

DestructionWaitsForWorker == \A i \in Images : WorkerActive(i) => alive[i]

\* An aggregate has been destroyed whose worker had been started and was not
\* joined by BindThumbnail: its increment of the counter is still there.
DestructionWaitsForWorkerWitness ==
    /\ \E i \in Images : ~alive[i] /\ i \in FewImages
    /\ ThumbnailNumThreadsRunning >
           Cardinality({j \in Images : alive[j] /\ ThumbnailThreadRunning[j]})
    /\ crashed = NoCrash

\* C19: a started worker can always take its next step towards the clear of
\* the completion flag: nothing ends the process, and nothing destroys the
\* aggregate, while a worker has not cleared its flag.
WorkerCompletes ==
    \A i \in Images : WorkerActive(i) => (crashed = NoCrash /\ alive[i])

\* The members of aggregate i after the step are those before it, but for
\* the time of the last load.
OnlyLoadedTimeChanges(i) ==
    agg'[i] = [agg[i] EXCEPT !.LoadedTime = agg'[i].LoadedTime]

LoadFailureLeavesEmpty ==
    [][\A i \in Images :
         (/\ ~IsLoaded(agg[i])
          /\ Load(i) \/ LoadPath(i)
          /\ result'.ret = FALSE)
         => /\ agg'[i].Pictures = << >>
            /\ ~IsValid(agg'[i].AltPicture)
            /\ agg'[i].Info = agg[i].Info
            /\ ~IsLoaded(agg'[i])]_vars

\* C16: Unload returns success; on a loaded aggregate it leaves both GPU
\* handles zero, the alt picture invalid and not shown, the mip chain empty,
\* the memory size of the info record zero and the aggregate not loaded; on
\* a not-loaded aggregate it changes nothing.
UnloadPostcondition ==
    [][\A i \in Images :
         Unload(i) =>
            /\ result'.ret = TRUE
            /\ IF IsLoaded(agg[i])
               THEN /\ agg'[i].TexIDPrimary = 0 /\ agg'[i].TexIDAlt = 0
                    /\ ~IsValid(agg'[i].AltPicture)
                    /\ agg'[i].AltPictureEnabled = FALSE
                    /\ agg'[i].Pictures = << >>
                    /\ agg'[i].Info.MemSizeBytes = 0
                    /\ ~IsLoaded(agg'[i])
               ELSE agg' = agg /\ Filename' = Filename]_vars

\* Unload has emptied an aggregate that was loaded from a DDS file with more
\* than one picture: the info record still has the size of that file.
UnloadPostconditionWitness ==
    \E i \in Images :
        /\ result = [op |-> "Unload", img |-> i, ret |-> TRUE]
        /\ ~IsLoaded(agg[i])
        /\ agg[i].Info.Mipmaps > 1 /\ agg[i].Info.Width > 0
        /\ agg[i].Info.MemSizeBytes = 0
        /\ agg[i].TexIDPrimary = 0 /\ agg[i].TexIDAlt = 0

\* The representation the queries are to read: the alt picture when it is
\* valid and shown, else the first picture of the mip chain when there is
\* one and it is valid, else none.
Displayed(a) ==
    IF IsValid(a.AltPicture) /\ a.AltPictureEnabled THEN "alt"
    ELSE IF a.Pictures # << >> /\ IsValid(a.Pictures[1]) THEN "primary"
    ELSE "none"

DisplayedPicture(a) ==
    CASE Displayed(a) = "alt" -> a.AltPicture
      [] Displayed(a) = "primary" -> a.Pictures[1]
      [] OTHER -> NoPicture

\* C17: in every state GetWidth, GetHeight and GetPixel read the same
\* representation: the alt picture when valid and shown, else level 0 of the
\* mip chain when it exists and is valid, else they give 0, 0 and black.
QueryFallbackOrder ==
    \A i \in Images :
        LET a == agg[i]
            pic == DisplayedPicture(a)
        IN  /\ GetWidth(a) = pic.Width
            /\ GetHeight(a) = pic.Height
            /\ \A c \in Coords(pic.Width, pic.Height) :
                   GetPixel(a, c[1], c[2]) = pic.Pixels[c]
            /\ Displayed(a) = "none" =>
                   /\ GetWidth(a) = 0 /\ GetHeight(a) = 0
                   /\ GetPixel(a, 0, 0) = black

\* The alt picture of a cubemap is shown, and it is wider and higher than
\* the first picture of the mip chain.
QueryFallbackOrderWitness ==
    \E i \in Images :
        /\ Displayed(agg[i]) = "alt"
        /\ Len(agg[i].Pictures) = Len(sideOrder)
        /\ GetWidth(agg[i]) = 4 * agg[i].Pictures[1].Width
        /\ GetHeight(agg[i]) = 3 * agg[i].Pictures[1].Height
        /\ GetPixel(agg[i], 0, 0) = transparent

\* The worker of aggregate i has started and has reads of the aggregate's
\* file name and file type ahead of it: those of the cache key and of the
\* choice of a decode context (at "check"), and those of the private load and
\* of the release of the context (at "load").
ReadsAhead(i) == wpc[i] \in {"check", "ctx", "load"}

\* C20: while the worker of an aggregate runs, the owning thread writes no
\* field of the aggregate that the worker still reads: neither the file name
\* nor the file type changes.
OnlyThumbnailShared ==
    [][\A i \in Images :
         ReadsAhead(i) => /\ Filename'[i] = Filename[i]
                          /\ agg'[i].Filetype = agg[i].Filetype]_vars

\* What a step does to the running-worker bookkeeping.
AdmittedInStep ==
    {i \in Images : alive'[i] /\ ~ThumbnailRequested[i] /\ ThumbnailRequested'[i]}

ReapedInStep ==
    {i \in Images : alive'[i] /\ ThumbnailThreadRunning[i] /\ ~ThumbnailThreadRunning'[i]}

WorkerStepTaken ==
    \E i \in Images : \/ GenerateThumbnailCheck(i)
                       \/ GenerateThumbnailContext(i)
                       \/ GenerateThumbnailLoad(i)
                       \/ GenerateThumbnailWrite(i)
                       \/ WorkerClearFlag(i)

ScopedDecodeContext ==
    \A i \in Images : offscreenContext[i] => wpc[i] = "load"

MipChainDimensions ==
    \A i \in Images :
        LET a == agg[i]
            tex == a.DDSTexture2D
        IN  (result = [op |-> "Load", img |-> i, ret |-> TRUE] /\ tex.NumLayers > 0) =>
                /\ Len(a.Pictures) = tex.NumLayers
                /\ a.Pictures[1].Width = tex.Width /\ a.Pictures[1].Height = tex.Height
                /\ ~a.AltPictureEnabled =>
                       (GetWidth(a) = tex.Width /\ GetHeight(a) = tex.Height)
                /\ \A n \in 2..Len(a.Pictures) :
                       /\ a.Pictures[n].Width =
                              tClampMin(ShiftRight(a.Pictures[n - 1].Width, 1), 1)
                       /\ a.Pictures[n].Height =
                              tClampMin(ShiftRight(a.Pictures[n - 1].Height, 1), 1)

(***************************************************************************)
(* C25  Cube sources.  After a successful load of a cube source the        *)
(* primary chain holds exactly six pictures, front (+Z), back (-Z), right  *)
(* (+X), left (-X), top (+Y), bottom (-Y) in this order, all of the face   *)
(* size; the alt picture is 4 faces wide and 3 faces high, and the six     *)
(* faces lie in it in six face-sized cells on the grid of faces, no two    *)
(* the same, with every other pixel transparent.                           *)
(***************************************************************************)
CubeLayout ==
    \A i \in Images :
        LET a == agg[i]
            faceW == a.DDSCubemap.Width
            faceH == a.DDSCubemap.Height
            alt == a.AltPicture
            faces == <<"PosZ", "NegZ", "PosX", "NegX", "PosY", "NegY">>
            Cells == (0..3) \X (0..2)
            InCell(cell, c) == /\ c[1] \div faceW = cell[1]
                               /\ c[2] \div faceH = cell[2]
            Holds(cell, s) ==
                \A x \in 0..(faceW - 1), y \in 0..(faceH - 1) :
                    alt.Pixels[<<cell[1] * faceW + x, cell[2] * faceH + y>>]
                        = a.Pictures[s].Pixels[<<x, y>>]
            Empty(cell) ==
                \A c \in Coords(alt.Width, alt.Height) :
                    InCell(cell, c) => alt.Pixels[c] = transparent
        IN  (a.DDSCubemap.NumLayers > 0 /\ IsLoaded(a)) =>
                /\ Len(a.Pictures) = 6
                /\ \A s \in 1..6 :
                       /\ a.Pictures[s].Width = faceW /\ a.Pictures[s].Height = faceH
                       /\ \A c \in Coords(faceW, faceH) :
                              SubSeq(a.Pictures[s].Pixels[c], 1, 3) = <<faces[s], c[1], c[2]>>
                /\ alt.Width = 4 * faceW /\ alt.Height = 3 * faceH
                /\ \A s \in 1..6 : \E cell \in Cells : Holds(cell, s)
                /\ \A cell \in Cells : \A s, t \in 1..6 :
                       (Holds(cell, s) /\ Holds(cell, t)) => s = t
                /\ \A cell \in Cells :
                       (\A s \in 1..6 : ~Holds(cell, s)) => Empty(cell)

\* A loaded cube source with faces of more than one pixel.
CubeLayoutWitness ==
    \E i \in Images :
        /\ agg[i].DDSCubemap.NumLayers > 0
        /\ agg[i].DDSCubemap.Width > 1
        /\ Len(agg[i].Pictures) = 6
        /\ IsValid(agg[i].AltPicture)
        /\ result = [op |-> "Load", img |-> i, ret |-> TRUE]

(***************************************************************************)
(* C26  IsOpaque follows the displayed representation.  In every state of  *)
(* an aggregate that has a picture to display, IsOpaque is true exactly    *)
(* when every pixel that GetPixel can return, of the alt picture when it   *)
(* is valid and enabled and of the first picture of the chain otherwise,   *)
(* has full alpha.                                                         *)
(***************************************************************************)
IsOpaqueOfDisplayed ==
    \A i \in Images :
        LET a == agg[i]
        IN  (GetWidth(a) > 0 /\ GetHeight(a) > 0) =>
                (IsOpaque(a) <=>
                     \A c \in Coords(GetWidth(a), GetHeight(a)) :
                         Alpha(GetPixel(a, c[1], c[2])) = opaqueAlpha)

\* The value a call of BindThumbnail returns at its last step, the read of
\* the thumbnail picture: the handle if the picture is valid, 0 if not.
BindReadReturns(i) ==
    IF ThumbnailPicture[i] # Invalid THEN TexIDThumbnail'[i] ELSE 0

\* What holds of the handle whatever glGenTextures does.
HandleOnlyWhenReady(i) ==
    /\ (BindThumbnail(i) /\ main' = Idle) => UNCHANGED TexIDThumbnail
    /\ BindRead(i) =>
           /\ BindReadReturns(i) # 0 =>
                  /\ ThumbnailRequested[i] /\ ~ThumbnailThreadRunning[i]
                  /\ ThumbnailPicture[i] # Invalid
           /\ TexIDThumbnail[i] # 0 => BindReadReturns(i) = TexIDThumbnail[i]
    /\ TexIDThumbnail'[i] # 0 =>
           /\ ThumbnailRequested'[i] /\ ~ThumbnailThreadRunning'[i]
           /\ ThumbnailPicture'[i] # Invalid
    /\ (alive'[i] /\ TexIDThumbnail[i] # 0) => TexIDThumbnail'[i] = TexIDThumbnail[i]

(***************************************************************************)
(* C27 as stated.  BindThumbnail returns 0 when the aggregate is not       *)
(* requested, the worker is not observed complete or the thumbnail is not  *)
(* valid; a handle other than 0 exists only for a complete request with a  *)
(* valid thumbnail and never changes; and the first call that finds the    *)
(* request complete and the thumbnail valid creates the handle.            *)
(***************************************************************************)
BindThumbnailCreatesAtFirstCall ==
    [][ \A i \in Images :
            /\ HandleOnlyWhenReady(i)
            /\ (BindRead(i) /\ ThumbnailPicture[i] # Invalid) => BindReadReturns(i) # 0
      ]_vars

(***************************************************************************)
(* C27  BindThumbnail result.  BindThumbnail returns 0 when the aggregate  *)
(* is not requested, the worker is not observed complete or the thumbnail  *)
(* is not valid; a handle other than 0 exists only for a complete request  *)
(* with a valid thumbnail and never changes.  A call that finds the        *)
(* request complete and the thumbnail valid returns the handle, creating   *)
(* it if there is none, or returns 0 having changed nothing when no        *)
(* texture name could be had.                                              *)
(***************************************************************************)
BindThumbnailResult ==
    [][ \A i \in Images :
            /\ HandleOnlyWhenReady(i)
            /\ (BindRead(i) /\ ThumbnailPicture[i] # Invalid) =>
                   \/ BindReadReturns(i) # 0
                   \/ /\ TexIDThumbnail[i] = 0
                      /\ UNCHANGED <<thumbVars, cache, alive, Filename, histVars>>
      ]_vars

\* A reaped request with a valid thumbnail whose handle has been created.
BindThumbnailResultWitness ==
    \E i \in Images :
        /\ alive[i] /\ TexIDThumbnail[i] # 0 /\ main = Idle
        /\ ThumbnailRequested[i] /\ ~ThumbnailThreadRunning[i] /\ joins[i] = 1

(***************************************************************************)
(* C28  Counter accuracy.  In every reachable state the running-worker     *)
(* counter equals the number of existing aggregates whose                  *)
(* ThumbnailThreadRunning is true.                                         *)
(***************************************************************************)
CounterAccuracy ==
    ThumbnailNumThreadsRunning =
        Cardinality({i \in Images : alive[i] /\ ThumbnailThreadRunning[i]})

(***************************************************************************)
(* C29  Eventual admission.  The counter cannot stay at or above the bound *)
(* forever: whenever an aggregate that is not requested finds the counter  *)
(* at the bound, some existing aggregate has a worker that is still to be  *)
(* reaped, whose owner's BindThumbnail will bring the counter down.        *)
(***************************************************************************)
AdmissionStaysPossible ==
    \A i \in Images :
        (alive[i] /\ ~ThumbnailRequested[i]
                  /\ ThumbnailNumThreadsRunning >= numThreadsMax) =>
            \E j \in Images : alive[j] /\ ThumbnailThreadRunning[j]

(***************************************************************************)
(* C30  A valid thumbnail is final.  Once the thumbnail picture of an      *)
(* aggregate is valid, no step before the destruction of the aggregate     *)
(* changes it; ThumbnailRequested is true and stays true, and the step of  *)
(* UnrequestThumbnail that would reset it changes nothing; no worker is    *)
(* started for the aggregate again; and a call of Load or Unload (a step   *)
(* that records its result or changes the loaded representation) changes   *)
(* nothing of the thumbnail state.                                         *)
(***************************************************************************)
ValidThumbnailIsFinal ==
    [][ \A i \in Images :
            (alive[i] /\ alive'[i] /\ ThumbnailPicture[i] # Invalid) =>
                /\ ThumbnailPicture'[i] = ThumbnailPicture[i]
                /\ ThumbnailRequested[i] /\ ThumbnailRequested'[i]
                /\ wpc'[i] # "check"
                /\ main = At("unreq_read", i) => UNCHANGED thumbVars
                /\ (result' # result \/ agg'[i] # agg[i]) => UNCHANGED <<thumbVars, cache>>
      ]_vars

\* The owner has unloaded the aggregate after its thumbnail became valid and
\* its worker was reaped, and the thumbnail is still there.
ValidThumbnailIsFinalWitness ==
    \E i \in Images :
        /\ alive[i] /\ ThumbnailPicture[i] # Invalid
        /\ ThumbnailRequested[i] /\ ~ThumbnailThreadRunning[i]
        /\ result = [op |-> "Unload", img |-> i, ret |-> TRUE]

(***************************************************************************)
(* C31  No invalid cache entries.  A worker is at the write of the cache   *)
(* file only with a valid thumbnail picture, and no cache file holds an    *)
(* invalid picture.                                                        *)
(***************************************************************************)
NoInvalidCacheEntries ==
    /\ \A i \in Images : wpc[i] = "write" => ThumbnailPicture[i] # Invalid
    /\ \A k \in Keys : cache[k] # Invalid

(***************************************************************************)
(* C32  At most one worker per aggregate.  Whenever RequestThumbnail is    *)
(* admitted, the thread handle of the aggregate is not joinable and no     *)
(* worker of the aggregate is at any position; the assignment of the new   *)
(* thread then starts the one worker and does not terminate the process.   *)
(* A worker is at a position only while the handle is joinable and         *)
(* ThumbnailThreadRunning is true.                                         *)
(***************************************************************************)
OneWorkerPerAggregate ==
    [][ \A i \in Images :
            /\ (~ThumbnailRequested[i] /\ ThumbnailRequested'[i]) =>
                   /\ ~ThumbnailThread[i] /\ wpc[i] = "none"
                   /\ ThumbnailThread'[i] /\ wpc'[i] = "check"
                   /\ crashed' = NoCrash
            /\ (alive'[i] /\ wpc'[i] # "none") =>
                   (ThumbnailThread'[i] /\ ThumbnailThreadRunning'[i])
      ]_vars

\* A second worker has been started for an aggregate: the cache file of its
\* key was written by an earlier worker of the same aggregate, the only one
\* of that file.
OneWorkerPerAggregateWitness ==
    \E i \in Images :
        /\ alive[i] /\ wpc[i] = "check"
        /\ cacheWrites[hashFile(Filename[i])] = 1
        /\ \A j \in Images \ {i} : Filename[j] # Filename[i]

(***************************************************************************)
(* C33  Thumbnail size for every aspect ratio.  For every source of at     *)
(* least 1 by 1 the two sides of the intermediate size are at least 1, and *)
(* the picture stored after the crop is exactly of the target size.        *)
(***************************************************************************)
ThumbnailSizeEveryAspect ==
    /\ srcPic.stage \in {"resampled", "cropped"} =>
           (srcPic.iw >= 1 /\ srcPic.ih >= 1)
    /\ srcPic.stage = "cropped" =>
           (srcPic.Width = ThumbWidth /\ srcPic.Height = ThumbHeight)

\* The mip chain, the alt picture and the info record that Load makes of the
\* decoded file `out` alone, on members that hold nothing of another file.
ProducedFrom(f, out) ==
    LoadFresh(NewImage(f), out, 0).a

(***************************************************************************)
(* C34  Load(path) loads what it names.  Whenever Load(path) returns       *)
(* success, the stored file name and file type are those of path, and the  *)
(* mip chain, the alt picture and the info record are those that a decode  *)
(* of path produces, also when the aggregate was already loaded from       *)
(* another path.                                                           *)
(***************************************************************************)
LoadLoadsWhatItNames ==
    [][\A i \in Images :
         (LoadPath(i) /\ result'.ret = TRUE) =>
            /\ Filename'[i] # EmptyName
            /\ agg'[i].Filetype = tGetFileType(Filename'[i])
            /\ \E out \in DecodeOutcomes(Filename'[i]) :
                   /\ agg'[i].Pictures = ProducedFrom(Filename'[i], out).Pictures
                   /\ agg'[i].AltPicture = ProducedFrom(Filename'[i], out).AltPicture
                   /\ agg'[i].Info = ProducedFrom(Filename'[i], out).Info]_vars

(***************************************************************************)
(* C35  Info memory size matches the buffers.  Immediately after a Load    *)
(* that returned success the memory size of the info record equals         *)
(* GetMemSizeBytes(): the bytes of the pictures of the mip chain plus      *)
(* those of the alt picture when one was built.                            *)
(***************************************************************************)
InfoMemSizeMatches ==
    [][\A i \in Images :
         ((Load(i) \/ LoadPath(i)) /\ result'.ret = TRUE) =>
            agg'[i].Info.MemSizeBytes = GetMemSizeBytes(agg'[i])]_vars

====
